---- MODULE Spec2Model ----
(***************************************************************************)
(* OpsNotebook backend: the target manager (driver supervisor), its        *)
(* process groups and the client-facing API, as a state machine.           *)
(*                                                                         *)
(* One step of the model is one critical section of a per-state lock, one  *)
(* signal, one context cancellation or one exchange with a driver.  Steps  *)
(* of a goroutine that touch nothing shared are merged into the next step  *)
(* that does.  A goroutine and the single goroutine it forks when it ends  *)
(* (Connect -> crash watcher or backoff timer -> Connect ...) form one      *)
(* "lineage"; a lineage is started by ConnectAll or by a reconnect request. *)
(***************************************************************************)
EXTENDS Integers, Sequences, FiniteSets, TLC

\* ------------------------------------------------------------------ bounds
MaxEvents == 2          \* events of the environment in a run: a reconnect request, a driver
                        \* exiting on its own, a failure of a healthy attempt, a shutdown signal
MaxLiveEvents == 1      \* the same, in the runs checked for progress
MaxApiEvents == 1       \* the same, in the runs where clients read the API

\* --------------------------------------------------------------- constants
MaxPolls == 50          \* waitForDriver: polls of GET /status
PollTimeoutMs == 500    \* waitForDriver: http.Client timeout of one poll
PollSleepMs == 100      \* waitForDriver: sleep after a failed poll
GiveUpMs == 5000        \* waitForDriver: the time it is meant to give up after
StatusDisconnected == "disconnected"
StatusConnecting == "connecting"
StatusConnected == "connected"
StatusError == "error"
Statuses == {StatusDisconnected, StatusConnecting, StatusConnected, StatusError}

Targets == {"t1"}
\* the configuration: group_by, and each target's tags
GroupBy == <<"environment", "region">>
Tags == [t \in Targets |-> [k \in {"environment"} |-> "prd"]]
NIL == 0                             \* a nil *exec.Cmd or context.CancelFunc
\* a driver's process group: "none" before cmd.Start, "running" while the direct child
\* (bash -c) lives, "orphaned" when only descendants of it are left, "dead" when nothing is
GroupStates == {"none", "running", "orphaned", "dead"}
Signals == {"TERM", "KILL", "CTXKILL"}
\* how a target's driver_cmd behaves: "clean" exits as a whole on SIGTERM and with its shell;
\* "leaky" has descendants that ignore SIGTERM and outlive the shell; "stubborn" ignores
\* SIGTERM as a whole and has no descendants
DriverKinds == {"clean", "leaky", "stubborn"}
NoError == <<>>                      \* the empty string

\* ConnectionInfo{}: every field at its zero value
ZeroConnection == [ControlURL |-> <<>>, URL |-> "", Headers |-> <<>>, Metadata |-> <<>>]

\* fmt.Sprintf("http://127.0.0.1:%d", controlPort); an attempt's port is named by the attempt
ControlURLOf(a) == <<"http://127.0.0.1:", ToString(a)>>

\* what a driver may answer to POST /connect with 200 and a JSON body
DriverInfos ==
    { [ControlURL |-> <<>>, URL |-> "http://127.0.0.1:9001",
       Headers |-> <<"Authorization", "Bearer x">>, Metadata |-> <<>>],
      ZeroConnection }               \* the body {}

\* the messages Connect hands to setError
ErrFindPort == <<"find port: ", "listen tcp 127.0.0.1:0: bind">>
ErrStartCmd == <<"start cmd: ", "exec failed">>
ErrNotReady == <<"driver failed to start http server">>
ErrConnectFailed(err) == <<"connect failed: ">> \o err
\* sendConnect's error for a non-200 answer: fmt.Errorf("status %d: %s", code, body)
ErrStatus(code, body) == <<"status ", code, ": ", body>>
\* (*url.Error).Error() of a failed request: Op + " " + quoted URL + ": " + Err
UrlError(op, url, path, err) == <<op, " \"">> \o url \o <<path, "\": ", err>>
\* sendConnect's error when its context is done, and when no driver answers
ErrCanceled(a) == UrlError("Post", ControlURLOf(a), "/connect", "context canceled")
ErrRefused(a) == UrlError("Post", ControlURLOf(a), "/connect", "connection refused")

VARIABLES
    Status,        \* State.Status, per target
    Error,         \* State.Error
    Connection,    \* State.Connection
    LastChecked,   \* State.LastChecked: 0 for the zero time, 1 for the time of a handshake
    cmd,           \* State.cmd: the attempt whose process it holds, or NIL
    cancel,        \* State.cancel: the attempt whose context it cancels, or NIL
    ctxDone,       \* the attempts in progress whose per-connect context has been cancelled
    mctxDone,      \* m.ctx has been cancelled
    procs,         \* per attempt: the state of its process group, the signals the manager sent it
    nextPid,       \* the next attempt (and process group) id
    killers,       \* process groups with a pending SIGKILL goroutine (terminateDriverCmd)
    threads,       \* the lineages: goroutines running Connect, watchers, timers, reconnect handlers
    main,          \* the main goroutine: signal handler, Shutdown, exit
    exited,        \* the backend process has exited
    eventsLeft,    \* events the environment may still produce
    driverKind,    \* per target: how its driver_cmd behaves (fixed by the configuration)
    discCalled,    \* history: Disconnect has been called on the target (by the API or Shutdown)
    discEpoch,     \* history: the next attempt id when Disconnect was last called, 0 if never
    wf,            \* one call of waitForDriver, taken alone: poll count, elapsed time, result
    px,            \* one call of DoProxyRequest, taken alone: snapshot, request, state read
    rv,            \* one call of ResolveVariables, taken alone
    ld,            \* one call of LoadWithPattern, taken alone
    gr,            \* one GET /api/groups over a registry of several targets, by rounds
    pk,            \* one round trip through getPairKey and parsePairKey
    lk,            \* the per-state lock of one target and the calls that take it, by events
    resp           \* the response the client-facing API emitted in this step, or NoResp

vars == <<Status, Error, Connection, LastChecked, cmd, cancel, ctxDone, mctxDone, procs,
          nextPid, killers, threads, main, exited, eventsLeft, driverKind, discCalled,
          discEpoch, resp, wf, px, rv, ld, gr, pk, lk>>

\* the functions taken alone
pureVars == <<rv, ld, gr, pk, lk>>
aux == <<wf, px, pureVars>>

stateVars == <<Status, Error, Connection, LastChecked, cmd, cancel>>

\* what a call of DoProxyRequest or DoExec did: the request it sent ("none", "target",
\* "driver") and the (body, status code, error) it returned; nil is the empty text
NoCall == [fn |-> "none", t |-> "", sent |-> "none", res |-> <<>>, code |-> 0, err |-> <<>>]
\* a response: status code, JSON keys, the pieces of the values or of the plain text, and
\* the call the handler made for it
WithCall(base, call) ==
    [code |-> base.code, fields |-> base.fields, text |-> base.text, call |-> call]
NoResp == WithCall([code |-> 0, fields |-> {}, text |-> <<>>], NoCall)

\* ---------------------------------------------------------------- lineages
NumBoot == Cardinality(Targets)
Lineages == 1..(NumBoot + MaxEvents)
BootLineages == 1..NumBoot
ApiLineages == (NumBoot + 1)..(NumBoot + MaxEvents)
BootTarget == CHOOSE f \in [BootLineages -> Targets] : \A t \in Targets : \E l \in BootLineages : f[l] = t

Pids == 1..(nextPid - 1)

Thread(pc, t, a, via, scmd, scancel) ==
    [pc |-> pc, t |-> t, a |-> a, via |-> via, scmd |-> scmd, scancel |-> scancel]

\* a lineage about to call m.Connect(state)
Caller(t, via) == Thread("call", t, NIL, via, NIL, NIL)
Ended(t) == Thread("done", t, NIL, "none", NIL, NIL)

CtxErr(a) == a \in ctxDone \/ mctxDone

\* where a goroutine still consults the context of its attempt
CtxReaders == {"start", "wait", "commit", "watch"}
InProgress(a) == \E l \in Lineages : threads[l].a = a /\ threads[l].pc \in CtxReaders

\* the goroutine is a crash watcher: waiting in cmd.Wait, at its critical section, or in
\* its 5 s sleep before Connect
IsWatcher(th) == th.pc \in {"watch", "wlock"} \/ (th.pc = "call" /\ th.via \in {"watcher", "watcher_d"})

\* history: the watchers of t that run while Disconnect is called are marked, and so is
\* a backoff timer of t that sleeps while Disconnect is called on t in status error
MarkWatchers(ths, t) ==
    [l \in Lineages |->
        IF ths[l].t = t /\ IsWatcher(ths[l])
        THEN [ths[l] EXCEPT !.via = IF ths[l].pc = "call" THEN "watcher_d" ELSE "disc"]
        ELSE IF ths[l].t = t /\ ths[l].pc = "backoff" /\ Status[t] = StatusError
        THEN [ths[l] EXCEPT !.via = "disc"]
        ELSE ths[l]]

\* waitForDriver and DoProxyRequest are not being looked at alone
WfIdle == [pc |-> "idle", mode |-> "none", i |-> 0, clock |-> 0, last |-> "none"]
PxIdle == [pc |-> "idle", t |-> "", body |-> "nil", status |-> StatusDisconnected, url |-> "",
           headers |-> <<>>, todo |-> {}, req |-> {}]

\* the state NewManager leaves, with e events of the environment to come
StateInit(e) ==
    /\ Status = [t \in Targets |-> StatusDisconnected]
    /\ Error = [t \in Targets |-> NoError]
    /\ Connection = [t \in Targets |-> ZeroConnection]
    /\ LastChecked = [t \in Targets |-> 0]
    /\ cmd = [t \in Targets |-> NIL]
    /\ cancel = [t \in Targets |-> NIL]
    /\ ctxDone = {}
    /\ mctxDone = FALSE
    /\ procs = <<>>
    /\ nextPid = 1
    /\ killers = {}
    /\ threads = [l \in Lineages |->
                    IF l \in BootLineages THEN Caller(BootTarget[l], "boot")
                    ELSE Thread("idle", CHOOSE t \in Targets : TRUE, NIL, "none", NIL, NIL)]
    /\ main = [pc |-> "serve", todo |-> {}, t |-> CHOOSE t \in Targets : TRUE, scmd |-> NIL, scancel |-> NIL]
    /\ exited = FALSE
    /\ eventsLeft = e
    /\ driverKind \in [Targets -> DriverKinds]
    /\ discCalled = [t \in Targets |-> FALSE]
    /\ discEpoch = [t \in Targets |-> 0]
    /\ resp = NoResp

FnIdle == [pc |-> "idle"]
PureIdle == rv = FnIdle /\ ld = FnIdle /\ gr = FnIdle /\ pk = FnIdle /\ lk = FnIdle

InitWith(e) == StateInit(e) /\ wf = WfIdle /\ px = PxIdle /\ PureIdle

Init == InitWith(MaxEvents)

\* ------------------------------------------------------- driver processes
\* what is left of a running group once its direct child was killed or has exited
AfterShellGone(kind) == IF kind = "leaky" THEN "orphaned" ELSE "dead"

\* what is left of a group after SIGTERM: each member honours or ignores it
AfterSigterm(kind, st) ==
    CASE kind = "clean" /\ st \in {"running", "orphaned"} -> "dead"
      [] kind = "leaky" /\ st = "running" -> "orphaned"
      [] OTHER -> st

\* syscall.Kill(-pid, SIGTERM)
SigtermGroup(ps, p) ==
    [ps EXCEPT ![p].st = AfterSigterm(driverKind[ps[p].t], @), ![p].sig = @ \cup {"TERM"}]

\* syscall.Kill(-pid, SIGKILL)
SigkillGroup(ps, p) == [ps EXCEPT ![p].st = "dead", ![p].sig = @ \cup {"KILL"}]

\* exec.CommandContext: once the context is done, os.Process.Kill on the direct child
CtxKillChild(ps, p) ==
    IF ps[p].st = "running"
    THEN [ps EXCEPT ![p].st = AfterShellGone(driverKind[ps[p].t]), ![p].sig = @ \cup {"CTXKILL"}]
    ELSE ps

\* ------------------------------------------------- Manager.Connect, by steps
SetThread(l, th) == threads' = [threads EXCEPT ![l] = th]

\* Manager.setError's critical section
SetErrorState(t, msg) ==
    /\ Status' = [Status EXCEPT ![t] = StatusError]
    /\ Error' = [Error EXCEPT ![t] = msg]

\* cancel() on a failure path (the direct child is killed), then setError, whose
\* goroutine sleeps 30 s
FailAttempt(l, msg) ==
    LET th == threads[l] IN
    /\ ctxDone' = ctxDone \ {th.a}
    /\ procs' = CtxKillChild(procs, th.a)
    /\ SetErrorState(th.t, msg)
    /\ SetThread(l, Thread("backoff", th.t, NIL, "none", NIL, NIL))

\* a guard that returns only when connected
ConnectGuardConnectedOnly(l) ==
    LET th == threads[l] IN
    /\ ~exited
    /\ th.pc = "call"
    /\ UNCHANGED aux
    /\ resp' = NoResp
    /\ IF Status[th.t] = StatusConnected
       THEN /\ SetThread(l, Ended(th.t))
            /\ UNCHANGED <<stateVars, ctxDone, mctxDone, procs, nextPid, killers, main, exited,
                           eventsLeft, driverKind, discCalled, discEpoch>>
       ELSE /\ Status' = [Status EXCEPT ![th.t] = StatusConnecting]
            /\ Error' = [Error EXCEPT ![th.t] = NoError]
            /\ nextPid' = nextPid + 1
            /\ procs' = Append(procs, [st |-> "none", sig |-> {}, t |-> th.t])
            /\ SetThread(l, Thread("start", th.t, nextPid, th.via, NIL, NIL))
            /\ UNCHANGED <<Connection, LastChecked, cmd, cancel, ctxDone, mctxDone, killers, main,
                           exited, eventsLeft, driverKind, discCalled, discEpoch>>

\* Connect's status guard: return when connected or connecting, else claim the attempt
ConnectGuard(l) ==
    LET th == threads[l] IN
    /\ ~exited
    /\ th.pc = "call"
    /\ UNCHANGED aux
    /\ resp' = NoResp
    /\ IF Status[th.t] = StatusConnected \/ Status[th.t] = StatusConnecting
       THEN /\ SetThread(l, Ended(th.t))
            /\ UNCHANGED <<stateVars, ctxDone, mctxDone, procs, nextPid, killers, main, exited,
                           eventsLeft, driverKind, discCalled, discEpoch>>
       ELSE /\ Status' = [Status EXCEPT ![th.t] = StatusConnecting]
            /\ Error' = [Error EXCEPT ![th.t] = NoError]
            /\ nextPid' = nextPid + 1
            /\ procs' = Append(procs, [st |-> "none", sig |-> {}, t |-> th.t])
            /\ SetThread(l, Thread("start", th.t, nextPid, th.via, NIL, NIL))
            /\ UNCHANGED <<Connection, LastChecked, cmd, cancel, ctxDone, mctxDone, killers, main,
                           exited, eventsLeft, driverKind, discCalled, discEpoch>>

\* net.Listen, cmd.Start (which refuses a cancelled context), then the critical
\* section that stores cmd and cancel
StartDriver(l) ==
    LET th == threads[l] IN
    /\ ~exited
    /\ th.pc = "start"
    /\ UNCHANGED aux
    /\ resp' = NoResp
    /\ UNCHANGED driverKind
    /\ \/ /\ ~mctxDone
          /\ procs' = [procs EXCEPT ![th.a].st = "running"]
          /\ cmd' = [cmd EXCEPT ![th.t] = th.a]
          /\ cancel' = [cancel EXCEPT ![th.t] = th.a]
          /\ SetThread(l, [th EXCEPT !.pc = "wait"])
          /\ UNCHANGED <<Status, Error, Connection, LastChecked, ctxDone, eventsLeft>>
       \/ /\ mctxDone
          /\ FailAttempt(l, ErrStartCmd)
          /\ UNCHANGED <<Connection, LastChecked, cmd, cancel, eventsLeft>>
       \/ /\ ~mctxDone
          /\ eventsLeft > 0
          /\ eventsLeft' = eventsLeft - 1
          /\ \E msg \in {ErrFindPort, ErrStartCmd} : FailAttempt(l, msg)
          /\ UNCHANGED <<Connection, LastChecked, cmd, cancel>>
    /\ UNCHANGED <<mctxDone, nextPid, killers, main, exited, discCalled, discEpoch>>

\* a request to the driver can be answered: its context is live and a process serves it
Answers(a) == ~CtxErr(a) /\ procs[a].st \in {"running", "orphaned"}

\* waitForDriver (true at a poll answered with 200, false after 50 failed polls), then
\* sendConnect (the decoded ConnectionInfo of a 200, or an error)
Handshake(l) ==
    LET th == threads[l] IN
    /\ ~exited
    /\ th.pc = "wait"
    /\ UNCHANGED aux
    /\ resp' = NoResp
    /\ \/ /\ Answers(th.a)
          /\ SetThread(l, [th EXCEPT !.pc = "commit"])
          /\ UNCHANGED <<Status, Error, ctxDone, procs, eventsLeft>>
       \/ /\ ~Answers(th.a)
          /\ \/ FailAttempt(l, ErrNotReady)
             \/ FailAttempt(l, ErrConnectFailed(IF CtxErr(th.a) THEN ErrCanceled(th.a)
                                                ELSE ErrRefused(th.a)))
          /\ UNCHANGED eventsLeft
       \/ /\ Answers(th.a)
          /\ eventsLeft > 0
          /\ eventsLeft' = eventsLeft - 1
          /\ \/ FailAttempt(l, ErrNotReady)
             \/ FailAttempt(l, ErrConnectFailed(ErrStatus("500", "boom")))
    /\ UNCHANGED <<Connection, LastChecked, cmd, cancel, mctxDone, nextPid, killers, main,
                   exited, driverKind, discCalled, discEpoch>>

\* the critical section that publishes the connection; Connect then forks the watcher
Commit(l) ==
    LET th == threads[l] IN
    /\ ~exited
    /\ th.pc = "commit"
    /\ UNCHANGED aux
    /\ resp' = NoResp
    /\ \E info \in DriverInfos :
          Connection' = [Connection EXCEPT ![th.t] = [info EXCEPT !.ControlURL = ControlURLOf(th.a)]]
    /\ Status' = [Status EXCEPT ![th.t] = StatusConnected]
    /\ LastChecked' = [LastChecked EXCEPT ![th.t] = 1]
    /\ SetThread(l, [th EXCEPT !.pc = "watch", !.via = "none"])
    /\ UNCHANGED <<Error, cmd, cancel, ctxDone, mctxDone, procs, nextPid, killers, main, exited,
                   eventsLeft, driverKind, discCalled, discEpoch>>

\* the watcher: cmd.Wait() returns, then the two contexts are checked
WatcherWake(l) ==
    LET th == threads[l] IN
    /\ ~exited
    /\ th.pc = "watch"
    /\ procs[th.a].st # "running"
    /\ UNCHANGED aux
    /\ resp' = NoResp
    /\ SetThread(l, IF CtxErr(th.a) THEN Ended(th.t)
                     ELSE Thread("wlock", th.t, th.a, th.via, NIL, NIL))
    /\ ctxDone' = ctxDone \ {th.a}
    /\ UNCHANGED <<stateVars, mctxDone, procs, nextPid, killers, main, exited,
                   eventsLeft, driverKind, discCalled, discEpoch>>

\* a watcher that records the exit and leaves the target disconnected
WatcherLockNoReconnect(l) ==
    LET th == threads[l] IN
    /\ ~exited
    /\ th.pc = "wlock"
    /\ UNCHANGED aux
    /\ resp' = NoResp
    /\ IF Status[th.t] = StatusConnected
       THEN /\ Status' = [Status EXCEPT ![th.t] = StatusDisconnected]
            /\ Connection' = [Connection EXCEPT ![th.t] = ZeroConnection]
       ELSE UNCHANGED <<Status, Connection>>
    /\ SetThread(l, Ended(th.t))
    /\ UNCHANGED <<Error, LastChecked, cmd, cancel, ctxDone, mctxDone, procs, nextPid, killers,
                   main, exited, eventsLeft, driverKind, discCalled, discEpoch>>

\* the watcher's critical section; if it found connected it sleeps 5 s and calls Connect
WatcherLock(l) ==
    LET th == threads[l] IN
    /\ ~exited
    /\ th.pc = "wlock"
    /\ UNCHANGED aux
    /\ resp' = NoResp
    /\ IF Status[th.t] = StatusConnected
       THEN /\ Status' = [Status EXCEPT ![th.t] = StatusDisconnected]
            /\ Connection' = [Connection EXCEPT ![th.t] = ZeroConnection]
            /\ SetThread(l, Caller(th.t, IF th.via = "disc" THEN "watcher_d" ELSE "watcher"))
       ELSE /\ SetThread(l, Ended(th.t))
            /\ UNCHANGED <<Status, Connection>>
    /\ UNCHANGED <<Error, LastChecked, cmd, cancel, ctxDone, mctxDone, procs, nextPid, killers,
                   main, exited, eventsLeft, driverKind, discCalled, discEpoch>>

\* a backoff goroutine that gives up after its sleep
BackoffWakeQuits(l) ==
    LET th == threads[l] IN
    /\ ~exited
    /\ th.pc = "backoff"
    /\ UNCHANGED aux
    /\ resp' = NoResp
    /\ SetThread(l, Ended(th.t))
    /\ UNCHANGED <<stateVars, ctxDone, mctxDone, procs, nextPid, killers, main, exited,
                   eventsLeft, driverKind, discCalled, discEpoch>>

\* setError's goroutine after its 30 s: return if m.ctx is cancelled, else call Connect
BackoffWake(l) ==
    LET th == threads[l] IN
    /\ ~exited
    /\ th.pc = "backoff"
    /\ UNCHANGED aux
    /\ resp' = NoResp
    /\ SetThread(l, IF mctxDone THEN Ended(th.t)
                     ELSE Caller(th.t, IF th.via = "disc" THEN "backoff_d" ELSE "backoff"))
    /\ UNCHANGED <<stateVars, ctxDone, mctxDone, procs, nextPid, killers, main, exited,
                   eventsLeft, driverKind, discCalled, discEpoch>>

\* ------------------------------------------------- the environment's drivers
\* a driver exits on its own: its shell, with or without the descendants
DriverCrash(p) ==
    /\ p \in Pids
    /\ eventsLeft > 0
    /\ procs[p].st = "running"
    /\ eventsLeft' = eventsLeft - 1
    /\ procs' = [procs EXCEPT ![p].st = AfterShellGone(driverKind[procs[p].t])]
    /\ UNCHANGED aux
    /\ resp' = NoResp
    /\ UNCHANGED driverKind
    /\ UNCHANGED <<stateVars, ctxDone, mctxDone, nextPid, killers, threads, main, exited,
                   discCalled, discEpoch>>

\* after m.cancel(): the kill of a direct child whose context is m.ctx's child
ManagerCtxKill(p) ==
    /\ ~exited
    /\ p \in Pids
    /\ mctxDone
    /\ procs[p].st = "running"
    /\ procs' = CtxKillChild(procs, p)
    /\ UNCHANGED aux
    /\ resp' = NoResp
    /\ UNCHANGED <<stateVars, ctxDone, mctxDone, nextPid, killers, threads, main, exited,
                   eventsLeft, driverKind, discCalled, discEpoch>>

\* terminateDriverCmd's goroutine after its 2 s: SIGKILL to the process group
Kill9(p) ==
    /\ ~exited
    /\ p \in killers
    /\ killers' = killers \ {p}
    /\ procs' = SigkillGroup(procs, p)
    /\ UNCHANGED aux
    /\ resp' = NoResp
    /\ UNCHANGED driverKind
    /\ UNCHANGED <<stateVars, ctxDone, mctxDone, nextPid, threads, main, exited, eventsLeft,
                   discCalled, discEpoch>>

\* ---------------------------------------------------- Manager.Disconnect
\* the critical section: snapshot and clear the handles, disconnected, zero connection
DisconnectState(t) ==
    /\ cmd' = [cmd EXCEPT ![t] = NIL]
    /\ cancel' = [cancel EXCEPT ![t] = NIL]
    /\ Status' = [Status EXCEPT ![t] = StatusDisconnected]
    /\ Connection' = [Connection EXCEPT ![t] = ZeroConnection]
    /\ discCalled' = [discCalled EXCEPT ![t] = TRUE]
    /\ discEpoch' = [discEpoch EXCEPT ![t] = nextPid]
    /\ UNCHANGED <<Error, LastChecked>>

\* terminateDriverCmd(cmd): SIGTERM to the group now, a goroutine for the SIGKILL
TerminateDriverCmd(p) ==
    IF p = NIL
    THEN UNCHANGED <<procs, killers>>
    ELSE /\ procs' = SigtermGroup(procs, p)
         /\ killers' = killers \cup {p}

\* cancel(), when not nil: the context is done and the direct child is killed
FireCancel(a) ==
    IF a = NIL
    THEN UNCHANGED <<ctxDone, procs>>
    ELSE /\ ctxDone' = IF InProgress(a) THEN ctxDone \cup {a} ELSE ctxDone
         /\ procs' = CtxKillChild(procs, a)

\* ------------------------------- POST /api/targets/{id}/reconnect (handleTargetAction)
ReconnectOK == WithCall([code |-> 200, fields |-> {"success"}, text |-> <<"true">>], NoCall)

\* the request arrives and Disconnect's critical section runs
ReconnectLock(l, t) ==
    LET th == threads[l] IN
    /\ ~exited
    /\ l \in ApiLineages
    /\ th.pc = "idle"
    /\ l - 1 \in ApiLineages => threads[l - 1].pc # "idle"
    /\ eventsLeft > 0
    /\ eventsLeft' = eventsLeft - 1
    /\ DisconnectState(t)
    /\ threads' = [MarkWatchers(threads, t) EXCEPT ![l] = Thread("d_term", t, NIL, "none", cmd[t], cancel[t])]
    /\ UNCHANGED aux
    /\ resp' = NoResp
    /\ UNCHANGED <<ctxDone, mctxDone, procs, nextPid, killers, main, exited, driverKind>>

ReconnectTerminate(l) ==
    LET th == threads[l] IN
    /\ ~exited
    /\ th.pc = "d_term"
    /\ TerminateDriverCmd(th.scmd)
    /\ SetThread(l, [th EXCEPT !.pc = "d_cancel", !.scmd = NIL])
    /\ UNCHANGED aux
    /\ resp' = NoResp
    /\ UNCHANGED <<stateVars, ctxDone, mctxDone, nextPid, main, exited, eventsLeft, driverKind, discCalled, discEpoch>>

\* cancel(); Disconnect returns; go Connect(state); {"success":true} is written
ReconnectCancel(l) ==
    LET th == threads[l] IN
    /\ ~exited
    /\ th.pc = "d_cancel"
    /\ FireCancel(th.scancel)
    /\ SetThread(l, Caller(th.t, "api"))
    /\ UNCHANGED aux
    /\ resp' = ReconnectOK
    /\ UNCHANGED <<stateVars, mctxDone, nextPid, killers, main, exited, eventsLeft, driverKind, discCalled, discEpoch>>

\* ------------------------------------------ main: signal, Manager.Shutdown, exit
\* a Shutdown that cancels the manager context before it disconnects anything
ShutdownBeginCancelsFirst ==
    /\ ~exited
    /\ main.pc = "serve"
    /\ eventsLeft > 0
    /\ eventsLeft' = eventsLeft - 1
    /\ main' = [main EXCEPT !.pc = "mcancel", !.todo = Targets]
    /\ UNCHANGED aux
    /\ resp' = NoResp
    /\ UNCHANGED driverKind
    /\ UNCHANGED <<stateVars, ctxDone, mctxDone, procs, nextPid, killers, threads, exited,
                   discCalled, discEpoch>>

\* SIGINT or SIGTERM arrives: Shutdown calls DisconnectAll
ShutdownBegin ==
    /\ ~exited
    /\ main.pc = "serve"
    /\ eventsLeft > 0
    /\ eventsLeft' = eventsLeft - 1
    /\ main' = [main EXCEPT !.pc = "d_lock", !.todo = Targets]
    /\ UNCHANGED aux
    /\ resp' = NoResp
    /\ UNCHANGED driverKind
    /\ UNCHANGED <<stateVars, ctxDone, mctxDone, procs, nextPid, killers, threads, exited,
                   discCalled, discEpoch>>

\* DisconnectAll ranges over the map: Disconnect's critical section for the next target
ShutdownLock(t) ==
    /\ ~exited
    /\ main.pc = "d_lock"
    /\ t \in main.todo
    /\ DisconnectState(t)
    /\ threads' = MarkWatchers(threads, t)
    /\ main' = [main EXCEPT !.pc = "d_term", !.t = t, !.scmd = cmd[t], !.scancel = cancel[t]]
    /\ UNCHANGED aux
    /\ resp' = NoResp
    /\ UNCHANGED <<ctxDone, mctxDone, procs, nextPid, killers, exited, eventsLeft, driverKind>>

ShutdownTerminate ==
    /\ ~exited
    /\ main.pc = "d_term"
    /\ TerminateDriverCmd(main.scmd)
    /\ main' = [main EXCEPT !.pc = "d_cancel", !.scmd = NIL]
    /\ UNCHANGED aux
    /\ resp' = NoResp
    /\ UNCHANGED driverKind
    /\ UNCHANGED <<stateVars, ctxDone, mctxDone, nextPid, threads, exited, eventsLeft,
                   discCalled, discEpoch>>

ShutdownCancel ==
    /\ ~exited
    /\ main.pc = "d_cancel"
    /\ FireCancel(main.scancel)
    /\ main' = [main EXCEPT !.pc = IF main.todo \ {main.t} = {} THEN "mcancel" ELSE "d_lock",
                            !.todo = @ \ {main.t}, !.scancel = NIL]
    /\ UNCHANGED aux
    /\ resp' = NoResp
    /\ UNCHANGED driverKind
    /\ UNCHANGED <<stateVars, mctxDone, nextPid, killers, threads, exited, eventsLeft,
                   discCalled, discEpoch>>

\* m.cancel(): Shutdown returns
ManagerCancel ==
    /\ ~exited
    /\ main.pc = "mcancel"
    /\ mctxDone' = TRUE
    /\ main' = [main EXCEPT !.pc = "returned"]
    /\ UNCHANGED aux
    /\ resp' = NoResp
    /\ UNCHANGED driverKind
    /\ UNCHANGED <<stateVars, ctxDone, procs, nextPid, killers, threads, exited, eventsLeft,
                   discCalled, discEpoch>>

\* server.Shutdown makes ListenAndServe return: main returns and every goroutine ends
Exit ==
    /\ ~exited
    /\ main.pc = "returned"
    /\ exited' = TRUE
    /\ main' = [main EXCEPT !.pc = "exited"]
    /\ threads' = [l \in Lineages |-> Ended(threads[l].t)]
    /\ killers' = {}
    /\ ctxDone' = {}
    /\ UNCHANGED aux
    /\ resp' = NoResp
    /\ UNCHANGED <<stateVars, mctxDone, procs, nextPid, eventsLeft, driverKind, discCalled, discEpoch>>

\* ------------------------------------------------ the API's read endpoints
\* strings.Join(parts, sep), as the pieces of the joined string
RECURSIVE Join(_, _)
Join(parts, sep) ==
    IF Len(parts) = 0 THEN <<>>
    ELSE IF Len(parts) = 1 THEN <<parts[1]>>
    ELSE <<parts[1], sep>> \o Join(Tail(parts), sep)

\* a getTag that takes an empty value for a missing one
getTagOrDefault(tags, key, defaultVal) ==
    IF key \in DOMAIN tags /\ tags[key] # "" THEN tags[key] ELSE defaultVal

\* getTag: the value of a key the map holds (the empty string too), else the default; a nil
\* map holds no key
getTag(tags, key, defaultVal) == IF key \in DOMAIN tags THEN tags[key] ELSE defaultVal

\* the text contains the piece sequence sub
Contains(text, sub) ==
    \E i \in 1..(Len(text) - Len(sub) + 1) : SubSeq(text, i, i + Len(sub) - 1) = sub

\* the keys encoding/json writes for a connection and an error, given their omitempty tags
OmitEmptyFields(t, withMetadata) ==
    (IF Connection[t].URL # "" THEN {"local_url"} ELSE {})
    \cup (IF Connection[t].Headers # <<>> THEN {"headers"} ELSE {})
    \cup (IF withMetadata /\ Connection[t].Metadata # <<>> THEN {"metadata"} ELSE {})
    \cup (IF Error[t] # NoError THEN {"error"} ELSE {})

\* the values written with them
StateText(t, withMetadata) ==
    <<t, Status[t]>>
    \o (IF Connection[t].URL # "" THEN <<Connection[t].URL>> ELSE <<>>)
    \o Connection[t].Headers
    \o (IF withMetadata THEN Connection[t].Metadata ELSE <<>>)
    \o Error[t]

\* the values of every target, in the order the map happens to be ranged over
RECURSIVE TextOfAll(_, _)
TextOfAll(ts, withMetadata) ==
    IF ts = {} THEN <<>>
    ELSE LET t == CHOOSE x \in ts : TRUE
         IN StateText(t, withMetadata) \o TextOfAll(ts \ {t}, withMetadata)

ReadOnly == UNCHANGED <<stateVars, ctxDone, mctxDone, procs, nextPid, killers, threads, main,
                        exited, eventsLeft, driverKind, discCalled, discEpoch>>

\* GET /api/targets
handleTargets ==
    /\ ~exited
    /\ UNCHANGED aux
    /\ resp' = WithCall([code |-> 200,
                          fields |-> {"id", "name", "tags", "driver_cmd", "status", "variables"}
                                     \cup UNION {OmitEmptyFields(t, TRUE) : t \in Targets},
                          text |-> TextOfAll(Targets, TRUE)], NoCall)
    /\ ReadOnly

\* the group key of a target: its group_by tags, "unknown" where missing, joined by ":"
GroupKey(t) == Join([i \in 1..Len(GroupBy) |-> getTag(Tags[t], GroupBy[i], "unknown")], ":")

\* GET /api/groups
handleGroups ==
    /\ ~exited
    /\ UNCHANGED aux
    /\ resp' = WithCall([code |-> 200,
                          fields |-> {"key", "values", "targets", "id", "status"}
                                     \cup UNION {OmitEmptyFields(t, FALSE) : t \in Targets},
                          text |-> LET t == CHOOSE x \in Targets : TRUE
                                   IN GroupKey(t) \o TextOfAll(Targets, FALSE)], NoCall)
    /\ ReadOnly

\* GET /api/targets/{id}: the default case of handleTargetAction
handleStatus(t) ==
    /\ ~exited
    /\ UNCHANGED aux
    /\ resp' = WithCall([code |-> 200, fields |-> {"id", "status", "error"},
                          text |-> <<t, Status[t]>> \o Error[t]], NoCall)
    /\ ReadOnly

\* http.Error(w, msg, code): the message as text/plain
HttpError(msg, code) == [code |-> code, fields |-> {}, text |-> msg]

\* a call's outcome: (nil, 0, err) when nothing came back, else (body, code, nil)
Failed(fn, t, sent, code, err) ==
    [fn |-> fn, t |-> t, sent |-> sent, res |-> <<>>, code |-> code, err |-> err]
Returned(fn, t, sent, code, res) ==
    [fn |-> fn, t |-> t, sent |-> sent, res |-> res, code |-> code, err |-> <<>>]

\* what the handler writes for a call: err.Error() with 502, else the body with its code
Written(call, keys) ==
    IF call.err # <<>> THEN HttpError(call.err, 502)
    ELSE [code |-> call.code, fields |-> keys, text |-> call.res]

\* State.DoExec: POST controlURL/execute whenever a control URL is stored; the answer is
\* passed through, a transport or body-read error returned as is
DoExec(t) ==
    LET url == Connection[t].ControlURL IN
    IF url = <<>> THEN {Failed("exec", t, "none", 0, <<"driver control url not available">>)}
    ELSE LET a == CHOOSE p \in Pids : ControlURLOf(p) = url IN
         IF procs[a].st \in {"running", "orphaned"}
         THEN {Returned("exec", t, "driver", 200, <<"ok">>),
               Failed("exec", t, "driver", 200, <<"unexpected EOF">>)}
         ELSE {Failed("exec", t, "driver", 0,
                      UrlError("Post", url, "/execute", "connection refused"))}

\* a handleExec that records a failed call in the target state, as setError would
handleExecMarksError(t) ==
    /\ ~exited
    /\ UNCHANGED aux
    /\ \E call \in DoExec(t) :
          /\ resp' = WithCall(Written(call, {"output"}), call)
          /\ IF call.err # <<>> /\ call.sent # "none"
             THEN SetErrorState(t, call.err)
             ELSE UNCHANGED <<Status, Error>>
    /\ UNCHANGED <<Connection, LastChecked, cmd, cancel>>
    /\ UNCHANGED <<ctxDone, mctxDone, procs, nextPid, killers, threads, main, exited,
                   eventsLeft, driverKind, discCalled, discEpoch>>

\* POST /api/targets/{id}/exec with a JSON body
handleExec(t) ==
    /\ ~exited
    /\ UNCHANGED aux
    /\ \E call \in DoExec(t) : resp' = WithCall(Written(call, {"output"}), call)
    /\ ReadOnly

\* DoProxyRequest without the status check of lines 381-384
DoProxyRequestAnyStatus(t) ==
    IF Connection[t].URL = ""
    THEN {Failed("proxy", t, "none", 0, <<"target has no base URL">>)}
    ELSE {Returned("proxy", t, "target", 200, <<"upstream">>),
          Failed("proxy", t, "target", 200, <<"read body: ", "unexpected EOF">>),
          Failed("proxy", t, "target", 0,
                 UrlError("Get", <<Connection[t].URL>>, "/x", "connection refused")),
          Failed("proxy", t, "none", 0, <<"net/http: invalid method ", "\"G T\"">>)}

\* State.DoProxyRequest: status, URL and headers are read in one critical section; the
\* request goes to the target's URL, never to the control plane
DoProxyRequest(t) ==
    IF Status[t] # StatusConnected
    THEN {Failed("proxy", t, "none", 0, <<"target not connected (status: ", Status[t], ")">>)}
    ELSE IF Connection[t].URL = ""
    THEN {Failed("proxy", t, "none", 0, <<"target has no base URL">>)}
    ELSE {Returned("proxy", t, "target", 200, <<"upstream">>),
          Failed("proxy", t, "target", 200, <<"read body: ", "unexpected EOF">>),
          Failed("proxy", t, "target", 0,
                 UrlError("Get", <<Connection[t].URL>>, "/x", "connection refused")),
          Failed("proxy", t, "none", 0, <<"net/http: invalid method ", "\"G T\"">>)}

\* any method on /api/targets/{id}/proxy/...
handleProxy(t) ==
    /\ ~exited
    /\ UNCHANGED aux
    /\ \E call \in DoProxyRequest(t) : resp' = WithCall(Written(call, {"data"}), call)
    /\ ReadOnly

\* ------------------------------------------------------------ specification
Next ==
    \/ \E l \in Lineages : ConnectGuard(l)
    \/ \E l \in Lineages : StartDriver(l)
    \/ \E l \in Lineages : Handshake(l)
    \/ \E l \in Lineages : Commit(l)
    \/ \E l \in Lineages : WatcherWake(l)
    \/ \E l \in Lineages : WatcherLock(l)
    \/ \E l \in Lineages : BackoffWake(l)
    \/ \E p \in Pids : DriverCrash(p)
    \/ \E p \in Pids : ManagerCtxKill(p)
    \/ \E p \in Pids : Kill9(p)
    \/ \E l \in Lineages, t \in Targets : ReconnectLock(l, t)
    \/ \E l \in Lineages : ReconnectTerminate(l)
    \/ \E l \in Lineages : ReconnectCancel(l)
    \/ ShutdownBegin
    \/ \E t \in Targets : ShutdownLock(t)
    \/ ShutdownTerminate
    \/ ShutdownCancel
    \/ ManagerCancel
    \/ Exit

Spec == Init /\ [][Next]_vars

\* --------------------------------------------------------------- progress
\* every goroutine that can take a step is scheduled, timers fire, and main returns
\* once the HTTP server was shut down; the environment owes nothing
ProgramStep ==
    \/ \E l \in Lineages :
          \/ ConnectGuard(l) \/ StartDriver(l) \/ Handshake(l) \/ Commit(l)
          \/ WatcherWake(l) \/ WatcherLock(l) \/ BackoffWake(l)
          \/ ReconnectTerminate(l) \/ ReconnectCancel(l)
    \/ \E p \in Pids : ManagerCtxKill(p) \/ Kill9(p)
    \/ \E t \in Targets : ShutdownLock(t)
    \/ ShutdownTerminate \/ ShutdownCancel \/ ManagerCancel \/ Exit

LiveInit == InitWith(MaxLiveEvents)

FairSpec == LiveInit /\ [][Next]_vars /\ WF_vars(ProgramStep)

\* ------------------------------------------------- the API under reads
ApiNext ==
    \/ Next
    \/ handleTargets
    \/ handleGroups
    \/ \E t \in Targets : handleStatus(t)
    \/ \E t \in Targets : handleExec(t)
    \/ \E t \in Targets : handleProxy(t)

ApiInit == InitWith(MaxApiEvents)

ApiSpec == ApiInit /\ [][ApiNext]_vars

\* ------------------------------------------------- waitForDriver, taken alone
\* the variables of the manager and the API
mgrVars == <<stateVars, ctxDone, mctxDone, procs, nextPid, killers, threads, main, exited,
             eventsLeft, driverKind, discCalled, discEpoch, resp>>

\* what one poll can meet: 200, a refused connection (or a done context), another status,
\* a connection accepted without a reply
PollOutcomes == {"ok", "refused", "non200", "hang"}
\* what a driver does over a call: never listens, never replies, or anything
DriverModes == {"refused", "hang", "any"}
OutcomesOf(mode) == IF mode = "any" THEN PollOutcomes ELSE {mode}

\* the time one poll takes: answers and refusals come at once, a hanging poll runs into
\* the client's timeout
PollMs(outcome) == IF outcome = "hang" THEN PollTimeoutMs ELSE 0

\* an iteration that returns true on any response, whatever its status
WfPollAnyResponse(outcome) ==
    /\ wf.pc = "poll"
    /\ wf.i < MaxPolls
    /\ outcome \in OutcomesOf(wf.mode)
    /\ wf' = IF outcome \in {"ok", "non200"}
             THEN [wf EXCEPT !.pc = "true", !.clock = @ + PollMs(outcome), !.last = outcome]
             ELSE [wf EXCEPT !.pc = IF wf.i + 1 = MaxPolls THEN "false" ELSE "poll",
                             !.i = @ + 1,
                             !.clock = @ + PollMs(outcome) + PollSleepMs,
                             !.last = outcome]
    /\ UNCHANGED <<mgrVars, px, pureVars>>

\* one iteration of waitForDriver's loop: return true on a 200, else sleep; false after
\* the last iteration; i counts the iterations that failed, last is what the poll met
WfPoll(outcome) ==
    /\ wf.pc = "poll"
    /\ wf.i < MaxPolls
    /\ outcome \in OutcomesOf(wf.mode)
    /\ wf' = IF outcome = "ok"
             THEN [wf EXCEPT !.pc = "true", !.clock = @ + PollMs(outcome), !.last = outcome]
             ELSE [wf EXCEPT !.pc = IF wf.i + 1 = MaxPolls THEN "false" ELSE "poll",
                             !.i = @ + 1,
                             !.clock = @ + PollMs(outcome) + PollSleepMs,
                             !.last = outcome]
    /\ UNCHANGED <<mgrVars, px, pureVars>>

WaitInit ==
    /\ StateInit(0)
    /\ px = PxIdle
    /\ PureIdle
    /\ \E mode \in DriverModes : wf = [pc |-> "poll", mode |-> mode, i |-> 0, clock |-> 0, last |-> "none"]

WaitNext == \E outcome \in PollOutcomes : WfPoll(outcome)

WaitSpec == WaitInit /\ [][WaitNext]_vars

\* ------------------------------------------- DoProxyRequest's request, by steps
MaxPxEvents == 1

\* the headers a driver may hand over at POST /connect: a JSON object, key then value
HeaderMaps ==
    { <<>>,
      <<"Authorization", "Bearer x">>,
      <<"accept", "text/plain">>,
      <<"Content-Type", "text/xml", "x-token", "s3">>,
      <<"authorization", "Bearer a", "Authorization", "Bearer b">> }

\* the body argument: nil, or the bytes the handler read (none, some)
Bodies == {"nil", "empty", "json"}

\* the entries of a map[string]string
Entries(h) == {<<h[2 * i - 1], h[2 * i]>> : i \in 1..(Len(h) \div 2)}

Lower == "abcdefghijklmnopqrstuvwxyz"
Upper == "ABCDEFGHIJKLMNOPQRSTUVWXYZ"
ToUpper(c) ==
    IF \E i \in 1..Len(Lower) : SubSeq(Lower, i, i) = c
    THEN LET i == CHOOSE n \in 1..Len(Lower) : SubSeq(Lower, n, n) = c IN SubSeq(Upper, i, i)
    ELSE c
ToLower(c) ==
    IF \E i \in 1..Len(Upper) : SubSeq(Upper, i, i) = c
    THEN LET i == CHOOSE n \in 1..Len(Upper) : SubSeq(Upper, n, n) = c IN SubSeq(Lower, i, i)
    ELSE c

\* whether a key is made of header-field bytes only (a space is not one)
RECURSIVE ValidHeaderKey(_)
ValidHeaderKey(k) ==
    k = "" \/ (SubSeq(k, 1, 1) # " " /\ ValidHeaderKey(SubSeq(k, 2, Len(k))))

\* the first letter and each letter after a hyphen in upper case, the others in lower
RECURSIVE Canonical(_, _)
Canonical(k, upper) ==
    IF k = "" THEN ""
    ELSE LET c == SubSeq(k, 1, 1)
         IN (IF upper THEN ToUpper(c) ELSE ToLower(c))
            \o Canonical(SubSeq(k, 2, Len(k)), c = "-")

\* textproto.CanonicalMIMEHeaderKey, which http.Header.Set applies to the key
CanonicalMIMEHeaderKey(k) == IF ValidHeaderKey(k) THEN Canonical(k, TRUE) ELSE k

\* req.Header.Set(k, v): the one value under the canonical key is replaced
HeaderSet(req, k, v) ==
    {e \in req : e[1] # CanonicalMIMEHeaderKey(k)} \cup {<<CanonicalMIMEHeaderKey(k), v>>}

\* lines 374-379: status, URL and headers are read under one read lock
PxSnapshot(t, body) ==
    /\ ~exited
    /\ px.pc = "idle"
    /\ px' = [px EXCEPT !.pc = "check", !.t = t, !.body = body, !.status = Status[t],
                        !.url = Connection[t].URL, !.headers = Connection[t].Headers]
    /\ UNCHANGED <<mgrVars, wf, pureVars>>

\* lines 381-414: the two checks, http.NewRequest, then Accept and, with a body,
\* Content-Type
PxPrepare ==
    /\ ~exited
    /\ px.pc = "check"
    /\ px' = IF px.status # StatusConnected \/ px.url = ""
             THEN [px EXCEPT !.pc = "failed"]
             ELSE [px EXCEPT !.pc = "range",
                             !.todo = Entries(px.headers),
                             !.req = IF px.body # "nil"
                                     THEN HeaderSet(HeaderSet({}, "Accept", "application/json"),
                                                    "Content-Type", "application/json")
                                     ELSE HeaderSet({}, "Accept", "application/json")]
    /\ UNCHANGED <<mgrVars, wf, pureVars>>

\* lines 416-418: one round of the range over the snapshotted map, in any order
PxSetHeader(e) ==
    /\ ~exited
    /\ px.pc = "range"
    /\ e \in px.todo
    /\ px' = [px EXCEPT !.todo = @ \ {e}, !.req = HeaderSet(@, e[1], e[2])]
    /\ UNCHANGED <<mgrVars, wf, pureVars>>

\* line 421: client.Do(req)
PxDo ==
    /\ ~exited
    /\ px.pc = "range"
    /\ px.todo = {}
    /\ px' = [px EXCEPT !.pc = "sent"]
    /\ UNCHANGED <<mgrVars, wf, pureVars>>

\* the target connected by the boot Connect to a driver that answered POST /connect with
\* a target URL and some headers; its watcher waits; MaxPxEvents events are to come
PxConnected ==
    \E t \in Targets, h \in HeaderMaps :
       /\ Status = [x \in Targets |-> StatusConnected]
       /\ Error = [x \in Targets |-> NoError]
       /\ Connection = [x \in Targets |->
                          [ControlURL |-> ControlURLOf(1), URL |-> "http://127.0.0.1:9001",
                           Headers |-> h, Metadata |-> <<>>]]
       /\ LastChecked = [x \in Targets |-> 1]
       /\ cmd = [x \in Targets |-> 1]
       /\ cancel = [x \in Targets |-> 1]
       /\ ctxDone = {}
       /\ mctxDone = FALSE
       /\ procs = <<[t |-> t, st |-> "running", sig |-> {}]>>
       /\ nextPid = 2
       /\ killers = {}
       /\ threads = [l \in Lineages |->
                       IF l \in BootLineages THEN Thread("watch", t, 1, "none", NIL, NIL)
                       ELSE Thread("idle", t, NIL, "none", NIL, NIL)]
       /\ main = [pc |-> "serve", todo |-> {}, t |-> t, scmd |-> NIL, scancel |-> NIL]
       /\ exited = FALSE
       /\ eventsLeft = MaxPxEvents
       /\ driverKind \in [Targets -> DriverKinds]
       /\ discCalled = [x \in Targets |-> FALSE]
       /\ discEpoch = [x \in Targets |-> 0]
       /\ resp = NoResp
       /\ wf = WfIdle
       /\ px = PxIdle
       /\ PureIdle

\* the manager as constructed, or with its target connected
PxInit == InitWith(MaxPxEvents) \/ PxConnected

PxNext ==
    \/ Next
    \/ \E t \in Targets, body \in Bodies : PxSnapshot(t, body)
    \/ PxPrepare
    \/ \E e \in UNION {Entries(h) : h \in HeaderMaps} : PxSetHeader(e)
    \/ PxDo

PxSpec == PxInit /\ [][PxNext]_vars

\* ------------------------------------------- Manager.ResolveVariables, by steps
MaxRules == 2

\* a Go map is a function on the keys it holds
EmptyMap == [k \in {} |-> ""]

\* Go's m[k] on a map[string]string: the value, or "" when the key is absent
Lookup(m, k) == IF k \in DOMAIN m THEN m[k] ELSE ""

\* for k, v := range src { dst[k] = v }
Assign(dst, src) ==
    [k \in DOMAIN dst \cup DOMAIN src |-> IF k \in DOMAIN src THEN src[k] ELSE dst[k]]

\* the tags of a target, the baseline variables, the rules of a configuration
RvTags ==
    { EmptyMap, [k \in {"env"} |-> "prod"],
      [k \in {"env", "tier"} |-> IF k = "env" THEN "prod" ELSE ""],
      [k \in {"env", "tier"} |-> IF k = "env" THEN "" ELSE "db"] }
RvBaselines == { EmptyMap, [k \in {"a"} |-> "a0"], [k \in {"a", "b"} |-> "base"] }
RvWhens ==
    { EmptyMap, [k \in {"env"} |-> "prod"], [k \in {"env"} |-> ""], [k \in {"tier"} |-> ""],
      [k \in {"env", "tier"} |-> IF k = "env" THEN "prod" ELSE "db"] }
RvThens ==
    { EmptyMap, [k \in {"a"} |-> "a1"], [k \in {"b"} |-> "b1"], [k \in {"a", "b"} |-> "two"] }
RvRules == [When : RvWhens, Then : RvThens]
RvRuleLists == UNION {[1..n -> RvRules] : n \in 0..MaxRules}

\* lines 357-363: every entry of rule.When equals cfg.Tags[k]
RuleMatch(cfg, rule) == \A k \in DOMAIN rule.When : Lookup(cfg.Tags, k) = rule.When[k]

\* lines 350-353: the result starts as a copy of cfg.Variables
RvCopy ==
    /\ rv.pc = "copy"
    /\ rv' = [rv EXCEPT !.pc = "rules", !.result = Assign(EmptyMap, rv.cfg.Variables)]
    /\ UNCHANGED <<mgrVars, wf, px, ld, gr, pk, lk>>

\* a round of the loop that drops the rule's Then when the rule is the last one
RvRuleSkipsLast ==
    /\ rv.pc = "rules"
    /\ rv.i <= Len(rv.rules)
    /\ rv' = [rv EXCEPT !.i = @ + 1,
                        !.result = IF RuleMatch(rv.cfg, rv.rules[rv.i]) /\ rv.i < Len(rv.rules)
                                   THEN Assign(@, rv.rules[rv.i].Then) ELSE @]
    /\ UNCHANGED <<mgrVars, wf, px, ld, gr, pk, lk>>

\* lines 354-367: one round of the loop over m.rules
RvRule ==
    /\ rv.pc = "rules"
    /\ rv.i <= Len(rv.rules)
    /\ rv' = [rv EXCEPT !.i = @ + 1,
                        !.result = IF RuleMatch(rv.cfg, rv.rules[rv.i])
                                   THEN Assign(@, rv.rules[rv.i].Then) ELSE @]
    /\ UNCHANGED <<mgrVars, wf, px, ld, gr, pk, lk>>

\* line 368
RvReturn ==
    /\ rv.pc = "rules"
    /\ rv.i > Len(rv.rules)
    /\ rv' = [rv EXCEPT !.pc = "returned"]
    /\ UNCHANGED <<mgrVars, wf, px, ld, gr, pk, lk>>

\* a call ResolveVariables(cfg) on a manager holding rules; called records the arguments
RvInit ==
    /\ StateInit(0) /\ wf = WfIdle /\ px = PxIdle
    /\ ld = FnIdle /\ gr = FnIdle /\ pk = FnIdle /\ lk = FnIdle
    /\ \E tags \in RvTags, vars0 \in RvBaselines, rules \in RvRuleLists :
          rv = [pc |-> "copy", cfg |-> [Tags |-> tags, Variables |-> vars0], rules |-> rules,
                called |-> [cfg |-> [Tags |-> tags, Variables |-> vars0], rules |-> rules],
                i |-> 1, result |-> EmptyMap]

RvNext == RvCopy \/ RvRule \/ RvReturn

RvSpec == RvInit /\ [][RvNext]_vars

\* ------------------------------------------- config.LoadWithPattern, by steps
MaxDocTargets == 2

\* var DefaultGroupBy
DefaultGroupBy == <<"environment", "region", "name">>

\* strings.Join
RECURSIVE JoinStrings(_, _)
JoinStrings(parts, sep) ==
    IF parts = <<>> THEN ""
    ELSE IF Len(parts) = 1 THEN parts[1]
    ELSE parts[1] \o sep \o JoinStrings(Tail(parts), sep)

\* matchGlob: filepath.Match for patterns made of literal characters and '*', which
\* matches any run of characters other than '/'
RECURSIVE matchGlob(_, _)
matchGlob(pattern, name) ==
    IF pattern = "" THEN name = ""
    ELSE LET p == SubSeq(pattern, 1, 1)
             rest == SubSeq(pattern, 2, Len(pattern))
         IN IF p = "*"
            THEN \/ matchGlob(rest, name)
                 \/ /\ name # ""
                    /\ SubSeq(name, 1, 1) # "/"
                    /\ matchGlob(pattern, SubSeq(name, 2, Len(name)))
            ELSE /\ name # ""
                 /\ SubSeq(name, 1, 1) = p
                 /\ matchGlob(rest, SubSeq(name, 2, Len(name)))

\* filterTargets: the targets whose tag values under groupBy, joined with ":", match
\* lines 78-82: the tag values under groupBy, "" for a tag the target lacks, joined by ":"
fullKey(t, groupBy) ==
    JoinStrings([i \in 1..Len(groupBy) |-> Lookup(t.Tags, groupBy[i])], ":")

RECURSIVE filterTargets(_, _, _)
filterTargets(targets, pattern, groupBy) ==
    IF targets = <<>> THEN <<>>
    ELSE LET t == Head(targets)
         IN (IF matchGlob(pattern, fullKey(t, groupBy)) THEN <<t>> ELSE <<>>)
            \o filterTargets(Tail(targets), pattern, groupBy)

\* Config.Validate: the error of the first target at fault, or "" for nil
RECURSIVE Validate(_, _)
Validate(targets, seenIDs) ==
    IF targets = <<>> THEN <<>>
    ELSE LET t == Head(targets)
         IN IF t.ID = "" THEN <<"target missing required 'id' field">>
            ELSE IF t.ID \in seenIDs
            THEN <<"duplicate target ID ", t.ID, " detected - IDs must be unique">>
            ELSE IF t.DriverCmd = "" THEN <<"target ", t.ID, " missing required 'driver_cmd'">>
            ELSE Validate(Tail(targets), seenIDs \cup {t.ID})

\* the targets a document may list, the documents, the patterns of --targets
DocTargets ==
    [ID : {"", "a", "b"}, DriverCmd : {"", "run"},
     Tags : {[k \in {"env"} |-> "prod"], [k \in {"env"} |-> "dev"]}]
Documents ==
    [GroupBy : {<<>>, <<"env">>},
     Targets : UNION {[1..n -> DocTargets] : n \in 0..MaxDocTargets}]
Patterns == {"", "*", "prod", "p*", "d*v", "*:*:*"}

\* lines 47-59: read, unmarshal, default the group_by
LdUnmarshal ==
    /\ ld.pc = "read"
    /\ ld' = [ld EXCEPT !.pc = "filter",
                        !.config = [ld.doc EXCEPT !.GroupBy = IF Len(@) = 0 THEN DefaultGroupBy
                                                              ELSE @]]
    /\ UNCHANGED <<mgrVars, wf, px, rv, gr, pk, lk>>

\* lines 61-63
LdFilter ==
    /\ ld.pc = "filter"
    /\ ld' = [ld EXCEPT !.pc = "validate",
                        !.config = IF ld.pattern # "" /\ ld.pattern # "*"
                                   THEN [@ EXCEPT !.Targets = filterTargets(@, ld.pattern,
                                                                           ld.config.GroupBy)]
                                   ELSE @]
    /\ UNCHANGED <<mgrVars, wf, px, rv, gr, pk, lk>>

\* lines 65-69: Validate, then the configuration or the error
LdValidate ==
    /\ ld.pc = "validate"
    /\ ld' = [ld EXCEPT !.err = Validate(ld.config.Targets, {}),
                        !.pc = IF Validate(ld.config.Targets, {}) = <<>> THEN "loaded"
                               ELSE "failed"]
    /\ UNCHANGED <<mgrVars, wf, px, rv, gr, pk, lk>>

LdInit ==
    /\ StateInit(0) /\ wf = WfIdle /\ px = PxIdle
    /\ rv = FnIdle /\ gr = FnIdle /\ pk = FnIdle /\ lk = FnIdle
    /\ \E doc \in Documents, pattern \in Patterns :
          ld = [pc |-> "read", doc |-> doc, pattern |-> pattern, config |-> doc, err |-> <<>>]

LdNext == LdUnmarshal \/ LdFilter \/ LdValidate

LdSpec == LdInit /\ [][LdNext]_vars

\* ------------------------------------------- Server.handleGroups, by rounds
MaxGroupTargets == 2

\* the ids of the registry
GrIds == {"t" \o ToString(i) : i \in 1..MaxGroupTargets}

\* the tags a target may carry; no value holds the separator
GrDb == [k \in {"env", "region", "name"} |->
           IF k = "env" THEN "prod" ELSE IF k = "region" THEN "us" ELSE "db"]
WithVariant(tags, v) ==
    [k \in DOMAIN tags \cup {"variant"} |-> IF k = "variant" THEN v ELSE tags[k]]
GrTagMaps ==
    { WithVariant(GrDb, "primary"), WithVariant(GrDb, "replica"), WithVariant(GrDb, "default"),
      GrDb, [k \in {"env"} |-> "prod"], [k \in {"env"} |-> ""], EmptyMap }

GrGroupBys == { <<"env", "region", "name">>, <<"env">>, <<>> }

\* what a target's state may hold when its round reads it
GrSnapshots ==
    { [Status |-> StatusConnected, URL |-> "http://127.0.0.1:9001",
       Headers |-> <<"Authorization", "Bearer x">>, Error |-> NoError],
      [Status |-> StatusError, URL |-> "", Headers |-> <<>>, Error |-> ErrNotReady] }

\* lines 141-148: values and groupKey of a target
GrValues(tags, groupBy) ==
    [k \in {groupBy[i] : i \in 1..Len(groupBy)} |-> getTag(tags, k, "unknown")]
GrKey(tags, groupBy) ==
    JoinStrings([i \in 1..Len(groupBy) |-> getTag(tags, groupBy[i], "unknown")], ":")

\* lines 160-166: the targetInfo of a target
GrInfo(id, st) ==
    [ID |-> id, Status |-> st.Status, LocalURL |-> st.URL, Headers |-> st.Headers,
     Error |-> st.Error]

\* lines 138-168: one round of the loop over GetAllTargets(), which ranges over a map
GrRound(id) ==
    /\ gr.pc = "loop"
    /\ id \in gr.todo
    /\ LET tags == gr.tags[id]
           groupKey == GrKey(tags, gr.groupBy)
           variant == getTag(tags, "variant", "default")
           old == IF groupKey \in DOMAIN gr.groups THEN gr.groups[groupKey]
                  ELSE [Key |-> groupKey, Values |-> GrValues(tags, gr.groupBy),
                        Targets |-> EmptyMap]
           new == [old EXCEPT !.Targets =
                     Assign(@, [v \in {variant} |-> GrInfo(id, gr.state[id])])]
       IN gr' = [gr EXCEPT !.todo = @ \ {id},
                           !.groups = Assign(@, [k \in {groupKey} |-> new])]
    /\ UNCHANGED <<mgrVars, wf, px, rv, ld, pk, lk>>

\* lines 170-174: the groups as a list, in no particular order
GrEncode ==
    /\ gr.pc = "loop"
    /\ gr.todo = {}
    /\ gr' = [gr EXCEPT !.pc = "written", !.list = {gr.groups[k] : k \in DOMAIN gr.groups}]
    /\ UNCHANGED <<mgrVars, wf, px, rv, ld, pk, lk>>

\* the manager writes a target's state between two rounds
GrWrite(id, snapshot) ==
    /\ gr.pc = "loop"
    /\ id \in DOMAIN gr.state
    /\ gr.state[id] # snapshot
    /\ gr' = [gr EXCEPT !.state[id] = snapshot]
    /\ UNCHANGED <<mgrVars, wf, px, rv, ld, pk, lk>>

\* GET /api/groups arrives at a manager holding some targets
GrInit ==
    /\ StateInit(0) /\ wf = WfIdle /\ px = PxIdle
    /\ driverKind = [t \in Targets |-> "clean"]
    /\ rv = FnIdle /\ ld = FnIdle /\ pk = FnIdle /\ lk = FnIdle
    /\ \E n \in 0..MaxGroupTargets, groupBy \in GrGroupBys :
          \E tags \in [{"t" \o ToString(i) : i \in 1..n} -> GrTagMaps] :
             gr = [pc |-> "loop", groupBy |-> groupBy, tags |-> tags,
                   state |-> [id \in DOMAIN tags |->
                                CHOOSE s \in GrSnapshots : s.Status = StatusConnected],
                   todo |-> DOMAIN tags, groups |-> EmptyMap, list |-> {}]

GrNext ==
    \/ \E id \in GrIds : GrRound(id)
    \/ GrEncode
    \/ \E id \in GrIds, snapshot \in GrSnapshots : GrWrite(id, snapshot)

GrSpec == GrInit /\ [][GrNext]_vars

\* ------------------------------------------- getPairKey and parsePairKey (frontend)
MaxDims == 3

\* the dimensions a group_by may name, and the values a group may hold for one
PkDims == <<"environment", "region", "name", "variant", "zone">>
PkValues == {"", "prod", "us", "unknown"}

\* null, or a value
Null == [null |-> TRUE]
Some(x) == [null |-> FALSE, val |-> x]

\* String.prototype.split with a one-character separator: the pieces between separators
RECURSIVE SplitFrom(_, _, _)
SplitFrom(str, sep, piece) ==
    IF str = "" THEN <<piece>>
    ELSE IF SubSeq(str, 1, 1) = sep
    THEN <<piece>> \o SplitFrom(SubSeq(str, 2, Len(str)), sep, "")
    ELSE SplitFrom(SubSeq(str, 2, Len(str)), sep, piece \o SubSeq(str, 1, 1))
Split(str, sep) == SplitFrom(str, sep, "")

\* getPairKey: null without values, else each value, or "unknown" for a falsy one (absent
\* or the empty string), joined with "|"
getPairKey(group, groupBy) ==
    IF group.values = Null THEN Null
    ELSE Some(JoinStrings([i \in 1..Len(groupBy) |->
                             IF Lookup(group.values.val, groupBy[i]) = "" THEN "unknown"
                             ELSE group.values.val[groupBy[i]]], "|"))

\* parsePairKey: null for a falsy key (null or the empty string) and for a key with
\* another number of parts than groupBy, else the parts by dimension
parsePairKey(key, groupBy) ==
    IF key = Null \/ key.val = "" THEN Null
    ELSE LET parts == Split(key.val, "|")
         IN IF Len(parts) # Len(groupBy) THEN Null
            ELSE Some([k \in {groupBy[i] : i \in 1..Len(groupBy)} |->
                         parts[CHOOSE i \in 1..Len(groupBy) :
                                  groupBy[i] = k /\ \A j \in (i + 1)..Len(groupBy) : groupBy[j] # k]])

PkFormat ==
    /\ pk.pc = "format"
    /\ pk' = [pk EXCEPT !.pc = "parse",
                        !.key = getPairKey([values |-> Some(pk.values)], pk.groupBy)]
    /\ UNCHANGED <<mgrVars, wf, px, rv, ld, gr, lk>>

PkParse ==
    /\ pk.pc = "parse"
    /\ pk' = [pk EXCEPT !.pc = "parsed", !.parsed = parsePairKey(pk.key, pk.groupBy)]
    /\ UNCHANGED <<mgrVars, wf, px, rv, ld, gr, lk>>

\* a group_by and one value per dimension
PkInit ==
    /\ StateInit(0) /\ wf = WfIdle /\ px = PxIdle
    /\ driverKind = [t \in Targets |-> "clean"]
    /\ rv = FnIdle /\ ld = FnIdle /\ gr = FnIdle /\ lk = FnIdle
    /\ \E n \in 0..MaxDims :
          \E values \in [{PkDims[i] : i \in 1..n} -> PkValues] :
             pk = [pc |-> "format", groupBy |-> SubSeq(PkDims, 1, n), values |-> values,
                   key |-> Null, parsed |-> Null]

PkNext == PkFormat \/ PkParse

PkSpec == PkInit /\ [][PkNext]_vars

\* ------------------------------------------- the per-state lock, by events
MaxLockCallers == 2     \* goroutines that call into one target's state at a time
LockCallers == 1..MaxLockCallers

\* what a code path does, in program order: it takes or releases the state's RWMutex,
\* reads or writes fields of the state in memory ("mem"), or performs network or process
\* I/O ("io": a request sent, a response written, a process spawned, signalled or waited)
handleStatusPath ==
    << <<"RLock", "state.Mu">>, <<"mem", "read status, error">>,
       <<"io", "write response">>, <<"RUnlock", "state.Mu">> >>

handleTargetsPath ==
    << <<"RLock", "state.Mu">>, <<"mem", "read config, status, connection, error">>,
       <<"RUnlock", "state.Mu">>, <<"io", "write response">> >>

handleGroupsPath ==
    << <<"RLock", "state.Mu">>, <<"mem", "read tags, status, connection, error">>,
       <<"RUnlock", "state.Mu">>, <<"io", "write response">> >>

DoProxyRequestPath ==
    << <<"RLock", "s.mu">>, <<"mem", "read status, url, headers">>, <<"RUnlock", "s.mu">>,
       <<"io", "send request">>, <<"io", "read response">> >>

DoExecPath ==
    << <<"RLock", "s.mu">>, <<"mem", "read control url">>, <<"RUnlock", "s.mu">>,
       <<"io", "send request">>, <<"io", "read response">> >>

DisconnectPath ==
    << <<"Lock", "state.mu">>, <<"mem", "take cmd, cancel; disconnected">>,
       <<"Unlock", "state.mu">>, <<"io", "signal process group">>, <<"io", "cancel">> >>

\* Connect up to the fork of the watcher, then the watcher
ConnectPath ==
    << <<"Lock", "state.mu">>, <<"mem", "guard; connecting">>, <<"Unlock", "state.mu">>,
       <<"io", "listen">>, <<"io", "spawn">>,
       <<"Lock", "state.mu">>, <<"mem", "store cmd, cancel">>, <<"Unlock", "state.mu">>,
       <<"io", "poll /status">>, <<"io", "post /connect">>,
       <<"Lock", "state.mu">>, <<"mem", "connection; connected">>, <<"Unlock", "state.mu">>,
       <<"io", "wait process">>,
       <<"Lock", "state.mu">>, <<"mem", "disconnected if connected">>, <<"Unlock", "state.mu">> >>

\* a failure path of Connect: cancel(), then setError
setErrorPath ==
    << <<"io", "cancel">>, <<"Lock", "state.mu">>, <<"mem", "error">>, <<"Unlock", "state.mu">> >>

LockPaths ==
    [handleStatus |-> handleStatusPath, handleTargets |-> handleTargetsPath,
     handleGroups |-> handleGroupsPath, DoProxyRequest |-> DoProxyRequestPath,
     DoExec |-> DoExecPath, Disconnect |-> DisconnectPath, Connect |-> ConnectPath,
     setError |-> setErrorPath]

\* the path caller c runs, and the event it performed last
PathOf(c) == IF lk.op[c] = "none" THEN <<>> ELSE LockPaths[lk.op[c]]
LastEvent(c) == IF lk.pos[c] > 1 THEN PathOf(c)[lk.pos[c] - 1] ELSE <<"none", "">>

\* a goroutine that is not inside a call enters one
LkCall(c, op) ==
    /\ lk.pc = "run"
    /\ lk.pos[c] > Len(PathOf(c))
    /\ lk' = [lk EXCEPT !.op[c] = op, !.pos[c] = 1]
    /\ UNCHANGED <<mgrVars, wf, px, rv, ld, gr, pk>>

\* the next event of c's path; sync.RWMutex blocks RLock while a writer holds the lock and
\* Lock while anyone holds it
LkStep(c) ==
    /\ lk.pc = "run"
    /\ lk.pos[c] <= Len(PathOf(c))
    /\ LET e == PathOf(c)[lk.pos[c]] IN
       /\ CASE e[1] = "RLock" -> /\ lk.writer = NIL
                                 /\ lk' = [lk EXCEPT !.readers = @ \cup {c}, !.pos[c] = @ + 1]
            [] e[1] = "RUnlock" -> lk' = [lk EXCEPT !.readers = @ \ {c}, !.pos[c] = @ + 1]
            [] e[1] = "Lock" -> /\ lk.writer = NIL /\ lk.readers = {}
                                /\ lk' = [lk EXCEPT !.writer = c, !.pos[c] = @ + 1]
            [] e[1] = "Unlock" -> lk' = [lk EXCEPT !.writer = NIL, !.pos[c] = @ + 1]
            [] OTHER -> lk' = [lk EXCEPT !.pos[c] = @ + 1]
    /\ UNCHANGED <<mgrVars, wf, px, rv, ld, gr, pk>>

LkInit ==
    /\ StateInit(0) /\ wf = WfIdle /\ px = PxIdle
    /\ driverKind = [t \in Targets |-> "clean"]
    /\ rv = FnIdle /\ ld = FnIdle /\ gr = FnIdle /\ pk = FnIdle
    /\ lk = [pc |-> "run", op |-> [c \in LockCallers |-> "none"],
             pos |-> [c \in LockCallers |-> 1], readers |-> {}, writer |-> NIL]

LkNext ==
    \/ \E c \in LockCallers, op \in DOMAIN LockPaths : LkCall(c, op)
    \/ \E c \in LockCallers : LkStep(c)

LkSpec == LkInit /\ [][LkNext]_vars

\* ================================================================== claims
\* where an attempt is in progress: past Connect's status guard, before the connected
\* commit or setError
AttemptPcs == {"start", "wait", "commit"}
AttemptsOf(t) == {l \in Lineages : threads[l].t = t /\ threads[l].pc \in AttemptPcs}

\* C1: for every target at most one connect attempt is in progress at any time, under
\* every interleaving of Connect with Disconnect
C1_OneAttemptInProgress == \A t \in Targets : Cardinality(AttemptsOf(t)) <= 1

\* C2: status connected implies a non-nil process handle of a driver process that the
\* manager has not terminated
C2_ConnectedHoldsLiveDriver ==
    \A t \in Targets :
        Status[t] = StatusConnected => cmd[t] # NIL /\ procs[cmd[t]].sig = {}

\* C3: status connected implies a non-empty target_url, whatever JSON the driver answered
C3_ConnectedHasTargetURL ==
    \A t \in Targets : Status[t] = StatusConnected => Connection[t].URL # ""

\* C4: status disconnected implies nil process handle and cancellation token and the zero
\* ConnectionInfo, after Disconnect and after the crash watcher alike
C4_DisconnectedIsClean ==
    \A t \in Targets :
        Status[t] = StatusDisconnected =>
            cmd[t] = NIL /\ cancel[t] = NIL /\ Connection[t] = ZeroConnection

\* the state machine's transitions; any status may fall to disconnected by Disconnect
Transitions ==
    { <<StatusDisconnected, StatusConnecting>>, <<StatusError, StatusConnecting>>,
      <<StatusConnecting, StatusConnected>>, <<StatusConnecting, StatusError>>,
      <<StatusConnected, StatusDisconnected>> }
    \cup { <<s, StatusDisconnected>> : s \in Statuses }

\* C5: every change of a target's status is one of the state machine's transitions
C5_OnlyListedTransitions ==
    [][\A t \in Targets : Status'[t] # Status[t] => <<Status[t], Status'[t]>> \in Transitions]_vars

\* the response carries a control_url key or the value of some driver's control URL
RespLeaks ==
    \/ "control_url" \in resp.fields
    \/ \E a \in Pids : Contains(resp.text, ControlURLOf(a))

\* C6: no response of the client-facing API contains a control_url field or the value of
\* a driver's control URL
C6_NoControlURLInResponses == ~RespLeaks

\* Disconnect or Shutdown has been called for the target
Torn(t) == discCalled[t] \/ main.pc # "serve"

\* the driver of a connected target has exited and nothing tore the target down
CrashedConnected(t) ==
    /\ Status[t] = StatusConnected
    /\ cmd[t] # NIL
    /\ procs[cmd[t]].st # "running"
    /\ ~Torn(t)

\* a crash watcher of the target is in its 5 s sleep before Connect
WatcherSleeping(t) ==
    \E l \in Lineages : threads[l].t = t /\ threads[l].pc = "call" /\ threads[l].via = "watcher"

\* the connection info is that of the newest attempt of the target
FreshInfo(t) ==
    /\ cmd[t] # NIL
    /\ Connection[t].ControlURL = ControlURLOf(cmd[t])
    /\ \A p \in Pids : procs[p].t = t => p <= cmd[t]

\* connected through a driver that runs, with the info of the newest attempt
ConnectedAfresh(t) ==
    Status[t] = StatusConnected /\ FreshInfo(t) /\ procs[cmd[t]].st = "running"

\* C7: when the driver of a connected target exits and neither Disconnect nor Shutdown was
\* called, the status becomes disconnected with the connection zeroed, Connect is invoked
\* again (which sets connecting), and the target reaches connected with fresh info or error
C7_CrashLeadsToReconnect ==
    /\ \A t \in Targets :
          CrashedConnected(t) ~> (ConnectedAfresh(t) \/ Status[t] = StatusError \/ Torn(t))
    /\ [][\A t \in Targets :
            /\ (CrashedConnected(t) /\ Status'[t] # StatusConnected /\ ~Torn(t)') =>
                  /\ Status'[t] = StatusDisconnected
                  /\ Connection'[t] = ZeroConnection
                  /\ WatcherSleeping(t)'
            /\ (WatcherSleeping(t) /\ ~WatcherSleeping(t)' /\ ~Torn(t)') =>
                  Status'[t] = StatusConnecting]_vars

\* the target is connected again after its first driver exited on its own
C7_Reconnected ==
    \E t \in Targets :
        /\ Status[t] = StatusConnected /\ ~Torn(t)
        /\ nextPid > 2 /\ cmd[t] = 2
        /\ procs[1].st \in {"orphaned", "dead"} /\ procs[1].sig = {}
        /\ Connection[t].ControlURL = ControlURLOf(2)

\* a Connect called by a backoff timer runs its status guard in this step
BackoffConnects(l) ==
    /\ threads[l].pc = "call" /\ threads[l].via \in {"backoff", "backoff_d"}
    /\ threads'[l].pc # "call" /\ ~exited'

\* C8: a target in error is eventually taken out of error by a new Connect unless the
\* manager context is cancelled, and a backoff's Connect that finds error sets connecting
\* and clears the error
C8_ErrorIsRetried ==
    /\ \A t \in Targets : (Status[t] = StatusError) ~> (Status[t] # StatusError \/ mctxDone)
    /\ [][\A l \in Lineages :
            BackoffConnects(l) /\ Status[threads[l].t] = StatusError =>
                /\ threads'[l].pc = "start"
                /\ Status'[threads[l].t] = StatusConnecting
                /\ Error'[threads[l].t] = NoError]_vars

\* a backoff's Connect has just claimed a new attempt
C8_Retrying ==
    \E l \in Lineages :
        /\ threads[l].pc = "start" /\ threads[l].via = "backoff"
        /\ Status[threads[l].t] = StatusConnecting /\ Error[threads[l].t] = NoError
        /\ ~mctxDone

\* C9: a crash watcher that was running when Disconnect was called on its target never
\* calls Connect for it
C9_NoWatcherReconnectAfterDisconnect ==
    [][\A l \in Lineages :
         ~(threads[l].pc = "call" /\ threads[l].via = "watcher_d"
             /\ threads'[l].pc # "call" /\ ~exited')]_vars

\* the ids an attempt can get in a run
AttemptIds == 1..(NumBoot + 3 * MaxEvents)

\* C10: a process group Disconnect has sent SIGTERM to is eventually without a live
\* process, by SIGTERM or by the SIGKILL that follows the 2 s grace
C10_GroupEventuallyDead ==
    \A p \in AttemptIds :
        (p \in Pids /\ "TERM" \in procs[p].sig) ~> (p \in Pids /\ procs[p].st = "dead")

\* C11: when wait-for-ready fails the driver's whole process group is killed, the status
\* becomes error with "driver failed to start http server", and a retry is scheduled
C11_NotReadyKillsGroup ==
    [][\A l \in Lineages :
         (threads[l].pc = "wait" /\ threads'[l].pc = "backoff"
            /\ Error'[threads[l].t] = ErrNotReady) =>
               /\ procs'[threads[l].a].st = "dead"
               /\ Status'[threads[l].t] = StatusError]_vars

\* C13: a driver that never answers GET /status with 200 is given up on 5 s after the
\* start of polling, for every way of not answering
C13_GivenUpAfter5s == wf.pc = "false" => wf.clock = GiveUpMs

\* the attempt a of target t has seen no Disconnect since it passed the status guard
Undisturbed(t, a) == discEpoch[t] <= a

\* lineage l's attempt ends in this step on a driver that answered /status with 200 and
\* POST /connect with another status
ConnectRefusedStep(l) ==
    /\ threads[l].pc = "wait" /\ threads'[l].pc = "backoff"
    /\ Answers(threads[l].a)
    /\ Error'[threads[l].t] # ErrNotReady

\* C12: an attempt whose driver answers POST /connect with a non-200 status N and body B,
\* with no Disconnect interleaved, ends in error "connect failed: status N: B" with the
\* connection zeroed, the driver killed and a retry scheduled, never passing connected
C12_ConnectNon200 ==
    [][\A l \in Lineages :
         (ConnectRefusedStep(l) /\ Undisturbed(threads[l].t, threads[l].a)) =>
            /\ Status'[threads[l].t] = StatusError
            /\ Error'[threads[l].t] = ErrConnectFailed(ErrStatus("500", "boom"))
            /\ Connection'[threads[l].t] = ZeroConnection
            /\ procs'[threads[l].a].st # "running"]_vars

\* C14: Shutdown calls Disconnect on every registered target, and each of those calls
\* has returned, before the manager-wide context is cancelled
C14_DisconnectAllBeforeCancel ==
    [][(~mctxDone /\ mctxDone') =>
          /\ main.pc = "mcancel" /\ main.todo = {}
          /\ main.scmd = NIL /\ main.scancel = NIL
          /\ \A t \in Targets : discCalled[t] /\ discEpoch[t] > 0]_vars

\* the manager context is cancelled after a Disconnect that terminated a driver
C14_CancelledAfterTeardown ==
    /\ mctxDone /\ ~exited
    /\ \A t \in Targets : discCalled[t]
    /\ \E p \in Pids : "TERM" \in procs[p].sig

\* ConnectAll is in wg.Wait: a Connect it called has not returned
ConnectAllWaiting == \E l \in BootLineages : threads[l].via = "boot"

\* C15: at the moment ConnectAll returns every registered target is connected or error,
\* whatever other Connect calls run concurrently
C15_ConnectAllWaitsForOutcome ==
    [][(ConnectAllWaiting /\ ~ConnectAllWaiting' /\ ~exited') =>
          \A t \in Targets : Status'[t] \in {StatusConnected, StatusError}]_vars

\* the reconnect handler for t has written its response and forked Connect
ReconnectAnswered(t) ==
    \E l \in ApiLineages : threads[l].t = t /\ threads[l].pc = "call" /\ threads[l].via = "api"

\* an attempt of t that passed the status guard after the last Disconnect is in progress:
\* the target is connecting for a driver spawned anew
NewAttemptRunning(t) ==
    \E l \in Lineages :
        /\ threads[l].t = t /\ threads[l].pc \in AttemptPcs
        /\ threads[l].a >= discEpoch[t]
        /\ Status[t] = StatusConnecting

\* C16: a reconnect request completes Disconnect before its success response and does not
\* wait for Connect; after it the previous driver has been signalled and the target
\* eventually enters connecting for a newly spawned driver (unless the backend shuts down)
C16_ReconnectStartsAnew ==
    /\ [](resp = ReconnectOK => \E t \in Targets : ReconnectAnswered(t) /\ discCalled[t])
    /\ [][\A l \in ApiLineages :
            (threads[l].pc = "d_term" /\ threads'[l].pc = "d_cancel" /\ threads[l].scmd # NIL)
                => "TERM" \in procs'[threads[l].scmd].sig]_vars
    /\ \A t \in Targets :
          ReconnectAnswered(t) ~> (NewAttemptRunning(t) \/ main.pc # "serve")

\* C17: DoProxyRequest sends a request only when the status it read is connected and the
\* target URL it read is not empty; with a status other than connected it sends nothing
\* and returns (nil, 0, "target not connected (status: <s>)"), and with status connected
\* and an empty target URL it sends nothing and returns (nil, 0, "target has no base URL").
\* (The handler does not change the state, so the state in which the response stands is
\* the one the call read.)
C17_ProxyPreconditions ==
    resp.call.fn = "proxy" =>
        LET call == resp.call
            t == resp.call.t
        IN /\ call.sent # "none" => (Status[t] = StatusConnected /\ Connection[t].URL # "")
           /\ Status[t] # StatusConnected =>
                call = Failed("proxy", t, "none", 0,
                              <<"target not connected (status: ", Status[t], ")">>)
           /\ (Status[t] = StatusConnected /\ Connection[t].URL = "") =>
                call = Failed("proxy", t, "none", 0, <<"target has no base URL">>)

\* a proxy call refused on a connected target without a base URL
C17_RefusedNoBaseURL ==
    /\ resp.call.fn = "proxy"
    /\ Status[resp.call.t] = StatusConnected
    /\ resp.call.err = <<"target has no base URL">>
    /\ resp.code = 502

\* C18: whenever DoExec is called for a target whose status is not connected, it returns
\* an error and has sent no request to a driver.
C18_ExecRefusedUnlessConnected ==
    (resp.call.fn = "exec" /\ Status[resp.call.t] # StatusConnected) =>
        (resp.call.sent = "none" /\ resp.call.err # <<>>)

\* C19: a step in which DoProxyRequest or DoExec is called and returns, whether with a
\* body, with a failed precondition or with a transport or body-read error, leaves
\* status, connection, error, last_checked, the process handle and the cancel function
\* of every target as they were.
C19_CallsLeaveStateAlone ==
    [][resp'.call.fn \in {"proxy", "exec"} => UNCHANGED stateVars]_vars

\* an exec call that met a transport error on a target whose status is connected
C19_ExecTransportError ==
    /\ resp.call.fn = "exec"
    /\ resp.call.sent = "driver"
    /\ resp.call.err # <<>>
    /\ resp.call.code = 0
    /\ Status[resp.call.t] = StatusConnected

\* C20: the request DoProxyRequest sends carries Accept: application/json, carries
\* Content-Type: application/json when the body is not nil, carries every entry of the
\* headers snapshotted with the status (header names compared as HTTP compares them,
\* without regard to case), a driver's entry replacing the default of the same name,
\* and carries nothing else.
C20_ProxyHeaders ==
    px.pc = "sent" =>
        LET driver == {<<CanonicalMIMEHeaderKey(e[1]), e[2]>> : e \in Entries(px.headers)}
            defaults == {<<"Accept", "application/json">>}
                        \cup (IF px.body # "nil"
                              THEN {<<"Content-Type", "application/json">>} ELSE {})
        IN /\ driver \subseteq px.req
           /\ \A d \in defaults : d \in px.req \/ \E e \in driver : e[1] = d[1]
           /\ px.req \subseteq driver \cup defaults
           /\ (\E r \in px.req : r[1] = "Content-Type")
                 <=> (px.body # "nil" \/ \E e \in driver : e[1] = "Content-Type")

\* C27: in every reachable state, a target whose status is disconnected, connecting or
\* error holds the zero ConnectionInfo.
C27_ConnectionOnlyWhileConnected ==
    \A t \in Targets : Status[t] # StatusConnected => Connection[t] = ZeroConnection

\* C28: in every reachable state, a target whose status is disconnected, connecting or
\* connected has the empty error message.
C28_ErrorOnlyWhileError ==
    \A t \in Targets : Status[t] # StatusError => Error[t] = NoError

\* C29: in every reachable state, a target whose status is disconnected or error holds no
\* process handle and no cancel function, and with status error no driver process of an
\* attempt on it is running.
C29_HandleOnlyWhileAttached ==
    \A t \in Targets :
        /\ Status[t] \in {StatusDisconnected, StatusError} => (cmd[t] = NIL /\ cancel[t] = NIL)
        /\ Status[t] = StatusError =>
              \A p \in Pids : procs[p].t = t => procs[p].st \notin {"running", "orphaned"}

\* a lineage returning from Connect's guard on a target found connected or connecting
\* (the exit of the backend ends every goroutine and is no return)
GuardReturns(l) ==
    /\ threads[l].pc = "call"
    /\ threads'[l].pc # "call"
    /\ ~exited'
    /\ Status[threads[l].t] \in {StatusConnected, StatusConnecting}

\* C30: a Connect call that finds status connected or connecting returns and, in doing so,
\* changes no field of the target state, reserves no attempt and spawns no process, and
\* leaves every other goroutine, the contexts and the pending kills as they were: no
\* retry and no watcher is scheduled.
C30_GuardedConnectIsNoOp ==
    [][\A l \in Lineages :
          GuardReturns(l) =>
              /\ UNCHANGED <<stateVars, procs, nextPid, ctxDone, mctxDone, killers>>
              /\ threads'[l] = Ended(threads[l].t)
              /\ \A k \in Lineages \ {l} : threads'[k] = threads[k]]_vars

\* a Connect that has returned at the guard while another attempt holds the target
C30_ReturnedAtGuard ==
    \E l \in Lineages, k \in Lineages :
        /\ l # k
        /\ threads[l].pc = "done"
        /\ threads[k].pc \in AttemptPcs
        /\ Status[threads[k].t] = StatusConnecting
        /\ threads[l].t = threads[k].t

\* the rules of R that apply to T: every when entry equals T's tag of that key, the tag
\* of a key T does not carry being the empty string
Matching(T, R) == {i \in 1..Len(R) : \A k \in DOMAIN R[i].When : Lookup(T.Tags, k) = R[i].When[k]}

\* the last rule among those in I whose then holds k, or 0
LastWriter(R, I, k) ==
    LET W == {i \in I : k \in DOMAIN R[i].Then}
    IN IF W = {} THEN 0 ELSE CHOOSE i \in W : \A j \in W : j <= i

\* T.variables merged with the then of every matching rule, in declared order
Resolved(T, R) ==
    LET I == Matching(T, R)
    IN [k \in DOMAIN T.Variables \cup UNION {DOMAIN R[i].Then : i \in I} |->
          IF LastWriter(R, I, k) = 0 THEN T.Variables[k] ELSE R[LastWriter(R, I, k)].Then[k]]

Faulty(targets) ==
    \/ \E i, j \in 1..Len(targets) : i # j /\ targets[i].ID = targets[j].ID
    \/ \E i \in 1..Len(targets) : targets[i].ID = "" \/ targets[i].DriverCmd = ""

\* C22: for every document and pattern, loading fails when the document's targets are
\* faulty (two share an id, or one has an empty id or an empty driver_cmd), whether or
\* not the pattern filters targets out; and the targets of a loaded configuration have
\* pairwise distinct, non-empty ids and non-empty driver_cmd.
C22_LoaderRejectsFaultyDocuments ==
    /\ (ld.pc \in {"loaded", "failed"} /\ Faulty(ld.doc.Targets)) => ld.pc = "failed"
    /\ ld.pc = "loaded" => ~Faulty(ld.config.Targets)

\* the group_by values and the slot the words of the specification give a target
ValuesOf(tags, groupBy) ==
    [k \in {groupBy[i] : i \in 1..Len(groupBy)} |->
        IF k \in DOMAIN tags THEN tags[k] ELSE "unknown"]
SlotOf(tags) == IF "variant" \in DOMAIN tags THEN tags["variant"] ELSE "default"

\* the round of the loop that handles target id
RoundOf(id) == gr.pc = "loop" /\ id \in gr.todo /\ id \notin gr'.todo

SlotsHolding(id) ==
    {<<g, v>> \in UNION {{g} \X DOMAIN g.Targets : g \in gr.list} : g.Targets[v].ID = id}

\* C24: in the /api/groups response every registered target stands in exactly one slot
\* of exactly one group, and the targets collected from all slots are the registered
\* ones, also when several targets share their group_by values and their variant.
C24_GroupingIsPartition ==
    gr.pc = "written" =>
        /\ \A id \in DOMAIN gr.tags : Cardinality(SlotsHolding(id)) = 1
        /\ {g.Targets[v].ID : <<g, v>> \in UNION {{g} \X DOMAIN g.Targets : g \in gr.list}}
              = DOMAIN gr.tags

\* C25: the key of every group of the /api/groups response is its values in group_by
\* order joined with "|"; two targets tagged env prod, region us, name db with variants
\* primary and replica, grouped by env, region, name, give the one group "prod|us|db"
\* with the slots primary and replica.
C25_KeyJoinedWithBar ==
    gr.pc = "written" =>
        /\ \A g \in gr.list :
              g.Key = JoinStrings([i \in 1..Len(gr.groupBy) |-> g.Values[gr.groupBy[i]]], "|")
        /\ ( /\ gr.groupBy = <<"env", "region", "name">>
             /\ DOMAIN gr.tags = {"t1", "t2"}
             /\ gr.tags["t1"] = WithVariant(GrDb, "primary")
             /\ gr.tags["t2"] = WithVariant(GrDb, "replica") )
           => \E g \in gr.list :
                 /\ gr.list = {g}
                 /\ g.Key = "prod|us|db"
                 /\ DOMAIN g.Targets = {"primary", "replica"}

\* C26: for every group_by and every tuple of values, one per dimension, none holding
\* the separator, parsePairKey(getPairKey({values: v}, groupBy), groupBy) is v, the empty
\* string among the values included.
C26_PairKeyRoundTrip ==
    pk.pc = "parsed" => pk.parsed = Some(pk.values)

\* C40: a round of ResolveVariables over a rule whose when names a key that the target's
\* tags do not hold merges nothing into the result, whatever value the when gives for
\* that key, the empty string included.
C40_AbsentTagNeverMatches ==
    [][(/\ rv.pc = "rules"
        /\ rv'.pc = "rules"
        /\ rv'.i = rv.i + 1
        /\ \E k \in DOMAIN rv.rules[rv.i].When : k \notin DOMAIN rv.cfg.Tags)
       => rv'.result = rv.result]_vars

\* the polls waitForDriver has made: the failed ones, and the one answered with 200
PollsMade == wf.i + (IF wf.pc = "true" THEN 1 ELSE 0)

\* C33: waitForDriver makes at most 50 polls; a poll answered with 200 makes it return
\* true, and it returns true on nothing else; a refused or hanging connection and a
\* response with another status count as failed polls; once it has returned it polls no
\* more; it returns false exactly when 50 polls have failed.
C33_WaitForDriver ==
    /\ [](PollsMade <= MaxPolls)
    /\ [](wf.pc = "true" <=> wf.last = "ok")
    /\ [](wf.pc = "false" <=> (wf.i = MaxPolls /\ wf.last # "ok"))
    /\ [][(wf' # wf /\ wf'.last # "ok") => (wf'.i = wf.i + 1 /\ wf'.pc # "true")]_vars
    /\ [][wf.pc \in {"true", "false"} => wf' = wf]_vars

\* true returned at the fiftieth poll, after one poll at least met another status and
\* the forty-ninth hung
C33_TrueAtLastPoll ==
    /\ wf.pc = "true"
    /\ wf.i = MaxPolls - 1
    /\ wf.clock > (MaxPolls - 1) * PollSleepMs

\* the configuration entry of a registered target
ConfigOf(id) == [ID |-> id, DriverCmd |-> "run", Tags |-> gr.tags[id]]

\* C34: for every target and group_by, the key of the group in which /api/groups puts
\* the target is the composite key the loader's filter builds for it (same separator,
\* same value for every dimension, a missing tag included), and so a pattern keeps the
\* target exactly when it matches the target's group key.
C34_FilterKeyIsGroupKey ==
    gr.pc = "written" =>
        \A id \in DOMAIN gr.tags, g \in gr.list :
            (\E v \in DOMAIN g.Targets : g.Targets[v].ID = id) =>
                /\ g.Key = fullKey(ConfigOf(id), gr.groupBy)
                /\ \A P \in Patterns \ {"", "*"} :
                      (filterTargets(<<ConfigOf(id)>>, P, gr.groupBy) = <<ConfigOf(id)>>)
                         <=> matchGlob(P, g.Key)

\* C31: in every Disconnect of a target that has a driver process the per-connect
\* cancellation token is fired only after the SIGKILL that follows SIGTERM and the 2 s
\* grace: at the step that fires the token the process group has been sent SIGKILL.
C31_CancelAfterSigkill ==
    [][/\ \A l \in Lineages :
            (threads[l].pc = "d_cancel" /\ threads'[l].pc # "d_cancel" /\ ~exited'
               /\ threads[l].scancel # NIL) => "KILL" \in procs[threads[l].scancel].sig
       /\ (main.pc = "d_cancel" /\ main'.pc # "d_cancel" /\ main.scancel # NIL)
             => "KILL" \in procs[main.scancel].sig]_vars

\* lineage l's connect attempt, in flight when Disconnect was called on its target, takes
\* a step of Connect
DisturbedAttemptSteps(l) ==
    /\ threads[l].pc \in AttemptPcs
    /\ threads'[l].pc # threads[l].pc
    /\ ~exited'
    /\ ~Undisturbed(threads[l].t, threads[l].a)

\* C35: a connect attempt that was in flight when Disconnect was called on its target
\* finishes without modifying status, connection or error: every step it takes after the
\* Disconnect leaves the three fields as they were.
C35_DisconnectedAttemptIsInert ==
    [][\A l \in Lineages :
          DisturbedAttemptSteps(l) =>
              /\ Status'[threads[l].t] = Status[threads[l].t]
              /\ Connection'[threads[l].t] = Connection[threads[l].t]
              /\ Error'[threads[l].t] = Error[threads[l].t]]_vars

\* a Disconnect that took the handle of p out of the state is about to signal it
BeingTerminated(p) ==
    \/ main.pc = "d_term" /\ main.scmd = p
    \/ \E l \in Lineages : threads[l].pc = "d_term" /\ threads[l].scmd = p

\* C36: no driver process is orphaned: every driver the manager started that still runs
\* and has been sent no termination signal is the one its target's process handle refers
\* to, or the one a Disconnect in progress is about to signal (so no new attempt has
\* overwritten the handle of such a driver).
C36_NoOrphanedDriver ==
    \A p \in AttemptIds :
        (p \in Pids /\ procs[p].st = "running" /\ procs[p].sig = {}) =>
            (cmd[procs[p].t] = p \/ BeingTerminated(p))

\* the target of watcher l is connected through the driver of an attempt later than the
\* one the watcher was forked for
ConnectedByLaterAttempt(l) ==
    /\ Status[threads[l].t] = StatusConnected
    /\ \E b \in AttemptIds : b > threads[l].a /\ Connection[threads[l].t].ControlURL = ControlURLOf(b)

\* C37: the exit of the driver of an earlier attempt never sets status to disconnected,
\* never zeroes the connection and never triggers a reconnect while the target is connected
\* through a driver spawned by a later attempt: the watcher's critical section then leaves
\* status and connection alone and the watcher returns.
C37_WatcherOnlyForItsConnection ==
    [][\A l \in Lineages :
          (threads[l].pc = "wlock" /\ threads'[l].pc # "wlock" /\ ~exited'
             /\ ConnectedByLaterAttempt(l)) =>
                /\ Status'[threads[l].t] = StatusConnected
                /\ Connection'[threads[l].t] = Connection[threads[l].t]
                /\ threads'[l].pc = "done"]_vars

\* Manager.Shutdown has returned
ShutdownReturned == main.pc \in {"returned", "exited"}

\* C38: after Shutdown has returned no driver process is spawned and no target becomes
\* connected, whatever attempts, watcher delays and backoff timers were pending.
C38_NothingAfterShutdown ==
    [][ShutdownReturned =>
          /\ \A p \in AttemptIds :
                (p \in Pids' /\ procs'[p].st = "running") => (p \in Pids /\ procs[p].st = "running")
          /\ \A t \in Targets : Status'[t] = StatusConnected => Status[t] = StatusConnected]_vars

\* C39: after Disconnect was called on a target in status error, the backoff timer that
\* the earlier setError scheduled does not start a connect attempt: with the manager still
\* running, the Connect it would call is not called, or changes nothing.
C39_NoBackoffAfterDisconnect ==
    [][\A l \in Lineages :
          (threads[l].pc = "call" /\ threads[l].via = "backoff_d"
             /\ threads'[l].pc # "call" /\ ~exited' /\ ~mctxDone) =>
                /\ threads'[l].pc = "done"
                /\ Status'[threads[l].t] = Status[threads[l].t]]_vars

\* caller c holds the per-state lock, for reading or for writing
HoldsLock(c) == c \in lk.readers \/ lk.writer = c

\* C32: no code path holds a target's per-state lock, read or write, while it performs
\* network or process I/O: whenever the event a caller performed last is a request sent,
\* a response written or a process spawned, signalled or waited on, it holds no lock.
C32_NoLockAcrossIO ==
    lk.pc = "run" => \A c \in LockCallers : LastEvent(c)[1] = "io" => ~HoldsLock(c)

====
